---- MODULE Spec2Model ----
(***************************************************************************)
(* A model of the fin_pos crate (finite posets): the Matrix representation *)
(* PosetM, the Graph representation PosetG, the shared MetaData cache, the *)
(* in-place operations find_* / adjoin_*, the value-returning operations   *)
(* op / sub and the convertors between representations.                    *)
(*                                                                         *)
(* A Vec<T> is a function with domain 0..len-1, a HashSet<usize> is a set  *)
(* of naturals and a HashMap<usize, HashSet<usize>> is a function from its *)
(* key set to sets, so that elements keep the source's 0-based names.      *)
(***************************************************************************)
EXTENDS Integers, FiniteSets, Sequences, TLC

VARIABLES p, out, last, hist

vars == <<p, out, last, hist>>

(* Largest argument of a constructor and largest raw payload.              *)
MaxN == 3

(* Largest number of elements a payload is grown to by adjoin_*.           *)
MaxCard == 4

---------------------------------------------------------------------------
(* Option<Elt>, Option<HashSet<usize>>                                     *)

None == [tag |-> "None"]

SomeA(i) == [tag |-> "A", i |-> i]

SomeNotPresent == [tag |-> "NotPresent"]

SomeSet(s) == [tag |-> "Some", s |-> s]

(* Vec helpers: length, push, vec![x; k]                                   *)
VLen(v) == Cardinality(DOMAIN v)

VPush(v, x) == [i \in 0..VLen(v) |-> IF i < VLen(v) THEN v[i] ELSE x]

VFill(x, k) == [i \in 0..(k - 1) |-> x]

(* The range 0..k                                                          *)
Elems(k) == 0..(k - 1)

(* Iterator::find on an ascending range: the first element that matches.   *)
First(S) == CHOOSE i \in S : \A j \in S : i <= j

(* The value of a call that panics (a failed unwrap(), an index out of     *)
(* bounds, todo!()), and the absence of a returned value.                  *)
Panic == [rep |-> "panic"]

NoValue == [rep |-> "none"]

---------------------------------------------------------------------------
(* MetaData and the raw constructors                                       *)

MetaData_new(n) ==
  [n |-> n, top |-> None, bot |-> None, minimals |-> None, maximals |-> None]

PosetM_new(m) == [rep |-> "M", md |-> MetaData_new(VLen(m)), m |-> m]

PosetG_new(g) == [rep |-> "G", md |-> MetaData_new(Cardinality(DOMAIN g)), g |-> g]

PosetH_new(h) == [rep |-> "H", md |-> MetaData_new(Cardinality(DOMAIN h)), h |-> h]

---------------------------------------------------------------------------
(* PosetM                                                                  *)

PosetM_leq(q, x, y) ==
  IF x \in DOMAIN q.m /\ y \in DOMAIN q.m[x]
    THEN (IF q.m[x][y] THEN "true" ELSE "false")
    ELSE "panic"

PosetM_find_bot(q) ==
  LET n == q.md.n
      found == {i \in 0..(n - 1) : \A j \in 0..(n - 1) : q.m[i][j]}
  IN  [q EXCEPT !.md.bot =
         IF found = {} THEN SomeNotPresent ELSE SomeA(First(found))]

(* A scan of the row of j where the source scans its column.               *)
PosetM_find_top_row(q) ==
  LET n == q.md.n
      found == {j \in 0..(n - 1) : \A i \in 0..(n - 1) : q.m[j][i]}
  IN  [q EXCEPT !.md.top =
         IF found = {} THEN SomeNotPresent ELSE SomeA(First(found))]

PosetM_find_top(q) ==
  LET n == q.md.n
      found == {j \in 0..(n - 1) : \A i \in 0..(n - 1) : q.m[i][j]}
  IN  [q EXCEPT !.md.top =
         IF found = {} THEN SomeNotPresent ELSE SomeA(First(found))]

PosetM_find_minimals(q) ==
  LET n == q.md.n
      minimals == {i \in 0..(n - 1) :
                     ~ \E j \in 0..(n - 1) : i # j /\ q.m[j][i]}
  IN  [q EXCEPT !.md.minimals = SomeSet(minimals)]

(* A scan of the column of i where the source scans its row.               *)
PosetM_find_maximals_column(q) ==
  LET n == q.md.n
      maximals == {i \in 0..(n - 1) :
                     ~ \E j \in 0..(n - 1) : i # j /\ q.m[j][i]}
  IN  [q EXCEPT !.md.maximals = SomeSet(maximals)]

PosetM_find_maximals(q) ==
  LET n == q.md.n
      maximals == {i \in 0..(n - 1) :
                     ~ \E j \in 0..(n - 1) : i # j /\ q.m[i][j]}
  IN  [q EXCEPT !.md.maximals = SomeSet(maximals)]

PosetM_new_chain(n) ==
  PosetM_new([i \in 0..(n - 1) |-> [j \in 0..(n - 1) |-> i <= j]])

PosetM_new_antichain(n) ==
  PosetM_new([i \in 0..(n - 1) |-> [j \in 0..(n - 1) |-> i = j]])

PosetM_adjoin_bot(q) ==
  LET n == q.md.n
      rows == [i \in DOMAIN q.m |-> VPush(q.m[i], FALSE)]
  IN  [q EXCEPT !.m = VPush(rows, VFill(TRUE, n + 1)),
                !.md.n = n + 1,
                !.md.bot = SomeA(n),
                !.md.minimals = SomeSet({n})]

(* md.n is left as it was: the source has no `self.md.n += 1` here.        *)
PosetM_adjoin_top(q) ==
  LET n == q.md.n
      rows == [i \in DOMAIN q.m |-> VPush(q.m[i], TRUE)]
      pushed == VPush(rows, VFill(FALSE, n))
  IN  IF n \notin DOMAIN pushed
        THEN Panic
        ELSE [q EXCEPT !.m = [pushed EXCEPT ![n] = VPush(pushed[n], TRUE)],
                       !.md.top = SomeA(n),
                       !.md.maximals = SomeSet({n})]

---------------------------------------------------------------------------
(* PosetG                                                                  *)

PosetG_leq(q, x, y) ==
  IF x \in DOMAIN q.g
    THEN (IF y \in q.g[x] THEN "true" ELSE "false")
    ELSE "panic"

(* A forward set counted without its own element: md.n - 1 members.        *)
PosetG_find_bot_results_self_excluded(q) ==
  LET found == {i \in DOMAIN q.g : Cardinality(q.g[i]) = q.md.n - 1}
  IN  IF found = {} THEN {SomeNotPresent} ELSE {SomeA(i) : i \in found}

(* HashMap::iter() visits the entries in an unspecified order, so find()   *)
(* may return any entry whose forward set has md.n members.                *)
PosetG_find_bot_results(q) ==
  LET found == {i \in DOMAIN q.g : Cardinality(q.g[i]) = q.md.n}
  IN  IF found = {} THEN {SomeNotPresent} ELSE {SomeA(i) : i \in found}

PosetG_find_maximals(q) ==
  LET n == q.md.n
  IN  IF \E i \in 0..(n - 1) : i \notin DOMAIN q.g
        THEN Panic
        ELSE [q EXCEPT !.md.maximals =
                SomeSet({i \in 0..(n - 1) : Cardinality(q.g[i]) = 1})]

(* HashSet::iter().next() on a one-element set is that element.            *)
PosetG_find_top(q) ==
  LET r == PosetG_find_maximals(q)
  IN  IF r = Panic
        THEN Panic
        ELSE [r EXCEPT !.md.top =
                IF Cardinality(r.md.maximals.s) = 1
                  THEN SomeA(CHOOSE i \in r.md.maximals.s : TRUE)
                  ELSE SomeNotPresent]

(* The forward sets folded without removing their own element.            *)
PosetG_find_minimals_keep_self(q) ==
  LET non_minimals == UNION {q.g[i] : i \in DOMAIN q.g}
  IN  [q EXCEPT !.md.minimals =
         SomeSet({i \in 0..(q.md.n - 1) : i \notin non_minimals})]

PosetG_find_minimals(q) ==
  LET non_minimals == UNION {q.g[i] \ {i} : i \in DOMAIN q.g}
  IN  [q EXCEPT !.md.minimals =
         SomeSet({i \in 0..(q.md.n - 1) : i \notin non_minimals})]

(* Forward sets (i+1..n) without the element itself.                       *)
PosetG_new_chain_strict(n) ==
  PosetG_new([i \in 0..(n - 1) |-> (i + 1)..(n - 1)])

PosetG_new_chain(n) ==
  PosetG_new([i \in 0..(n - 1) |-> i..(n - 1)])

PosetG_new_antichain(n) ==
  PosetG_new([i \in 0..(n - 1) |-> {i}])

(* HashMap::insert replaces the entry of an existing key.                  *)
MapInsert(g, k, s) == [i \in DOMAIN g \cup {k} |-> IF i = k THEN s ELSE g[i]]

PosetG_adjoin_bot(q) ==
  LET n == q.md.n
  IN  [q EXCEPT !.g = MapInsert(q.g, n, 0..n),
                !.md.bot = SomeA(n),
                !.md.minimals = SomeSet({n}),
                !.md.n = n + 1]

PosetG_adjoin_top(q) ==
  LET n == q.md.n
      grown == [i \in DOMAIN q.g |-> q.g[i] \cup {n}]
  IN  [q EXCEPT !.g = MapInsert(grown, n, {n}),
                !.md.top = SomeA(n),
                !.md.maximals = SomeSet({n}),
                !.md.n = n + 1]

---------------------------------------------------------------------------
(* Value-returning operations: op, sub and the convertors.  A read of a    *)
(* matrix cell outside the matrix, and unwrap() on a missing key, panic.   *)

MInBounds(m, i, j) == i \in DOMAIN m /\ j \in DOMAIN m[i]

PosetM_op(q) ==
  LET n == q.md.n
  IN  IF \E i, j \in Elems(n) : ~ MInBounds(q.m, j, i)
        THEN Panic
        ELSE PosetM_new([i \in Elems(n) |-> [j \in Elems(n) |-> q.m[j][i]]])

PosetG_op(q) ==
  LET n == q.md.n
  IN  IF \E j \in Elems(n) : j \notin DOMAIN q.g
        THEN Panic
        ELSE PosetG_new([i \in Elems(n) |-> {j \in Elems(n) : i \in q.g[j]}])

(* todo!()                                                                 *)
PosetM_sub(q, s_0) == Panic

PosetG_sub(q, s_0) ==
  IF \E i \in s_0 : i \notin DOMAIN q.g
    THEN Panic
    ELSE PosetG_new([i \in s_0 |-> q.g[i] \ s_0])

matrix_to_graph(q) ==
  LET n == q.md.n
  IN  IF \E i, j \in Elems(n) : ~ MInBounds(q.m, i, j)
        THEN Panic
        ELSE PosetG_new([i \in Elems(n) |-> {j \in Elems(n) : q.m[i][j]}])

(* The cell [i][j] read from the forward set of j.                         *)
graph_to_matrix_transposed(q) ==
  LET n == q.md.n
  IN  IF \E i \in Elems(n) : i \notin DOMAIN q.g
        THEN Panic
        ELSE PosetM_new([i \in Elems(n) |-> [j \in Elems(n) |-> i \in q.g[j]]])

graph_to_matrix(q) ==
  LET n == q.md.n
  IN  IF \E i \in Elems(n) : i \notin DOMAIN q.g
        THEN Panic
        ELSE PosetM_new([i \in Elems(n) |-> [j \in Elems(n) |-> j \in q.g[i]]])

(* The cover set the filter computes for i: the j of g(i) for which no k   *)
(* of g(i) has j in g(k).                                                  *)
HasseCovers(g, i) ==
  {j \in g[i] : ~ \E k \in g[i] : k \in DOMAIN g /\ j \in g[k]}

(* any() stops at the first k with j in g(k) and HashSet::iter() has no    *)
(* fixed order: a k of g(i) that is not a key panics when it is visited    *)
(* before such a k, and always when there is no such k.                    *)
graph_to_hasse_results(q) ==
  LET n == q.md.n
      g == q.g
      missing(i) == {k \in g[i] : k \notin DOMAIN g}
      stops(i, j) == \E k \in g[i] : k \in DOMAIN g /\ j \in g[k]
      mayPanic == \E i \in Elems(n) : g[i] # {} /\ missing(i) # {}
      mustPanic == \E i \in Elems(n) : \E j \in g[i] :
                     missing(i) # {} /\ ~ stops(i, j)
  IN  IF \E i \in Elems(n) : i \notin DOMAIN g
        THEN {Panic}
        ELSE (IF mayPanic THEN {Panic} ELSE {})
             \cup (IF mustPanic THEN {}
                   ELSE {PosetH_new([i \in Elems(n) |-> HasseCovers(g, i)])})

---------------------------------------------------------------------------
(* Poset::new_corolla, the trait's default method, for each implementor    *)

PosetM_new_corolla(n) == PosetM_adjoin_bot(PosetM_new_antichain(n))

PosetG_new_corolla(n) == PosetG_adjoin_bot(PosetG_new_antichain(n))

---------------------------------------------------------------------------
(* The relation a value denotes, and valid payloads                        *)

IsPartialOrder(R, E) ==
  /\ \A x \in E : <<x, x>> \in R
  /\ \A x, y \in E : <<x, y>> \in R /\ <<y, x>> \in R => x = y
  /\ \A x, y, z \in E : <<x, y>> \in R /\ <<y, z>> \in R => <<x, z>> \in R

(* Every partial order on 0..k-1, as a set of pairs.                       *)
PartialOrders(k) ==
  LET diag == {<<x, x>> : x \in Elems(k)}
      off  == {xy \in Elems(k) \X Elems(k) : xy[1] # xy[2]}
  IN  {R \cup diag : R \in {S \in SUBSET off : IsPartialOrder(S \cup diag, Elems(k))}}

MatrixOf(R, k) == [i \in Elems(k) |-> [j \in Elems(k) |-> <<i, j>> \in R]]

GraphOf(R, k) == [i \in Elems(k) |-> {j \in Elems(k) : <<i, j>> \in R}]

(* The pairs x <= y of a PosetM: the true cells of its matrix.             *)
RelM(q) == {xy \in (DOMAIN q.m) \X (DOMAIN q.m) :
              xy[2] \in DOMAIN q.m[xy[1]] /\ q.m[xy[1]][xy[2]]}

(* The pairs x <= y of a PosetG: y in the forward set of x.                *)
RelG(q) == UNION {{<<x, y>> : y \in q.g[x]} : x \in DOMAIN q.g}

Rel(q) == IF q.rep = "M" THEN RelM(q) ELSE RelG(q)

(* The elements the payload describes.                                     *)
Carrier(q) == IF q.rep = "M" THEN DOMAIN q.m ELSE DOMAIN q.g

(* A valid poset value: md.n elements 0..md.n-1, a payload of exactly that *)
(* shape, and a reflexive, antisymmetric, transitive relation.             *)
ValidPoset(q) ==
  /\ q.rep \in {"M", "G"}
  /\ Carrier(q) = Elems(q.md.n)
  /\ q.rep = "M" => \A i \in DOMAIN q.m : DOMAIN q.m[i] = Elems(q.md.n)
  /\ q.rep = "G" => \A i \in DOMAIN q.g : q.g[i] \subseteq Elems(q.md.n)
  /\ IsPartialOrder(Rel(q), Elems(q.md.n))

---------------------------------------------------------------------------
(* State: p is the poset value the caller owns, out the value returned by  *)
(* the last call (NoValue when it returned nothing), last the last call    *)
(* and hist how p was constructed and how often it was extended since.     *)

Call(op, src, sel) == [op |-> op, src |-> src, sel |-> sel]

Built(ctor, n) == [ctor |-> ctor, n |-> n, adjoins |-> 0]

Init ==
  /\ out = NoValue
  /\ \/ \E k \in 0..MaxN : \E R \in PartialOrders(k) :
          /\ p = PosetM_new(MatrixOf(R, k))
          /\ hist = Built("new", k)
     \/ \E k \in 0..MaxN : \E R \in PartialOrders(k) :
          /\ p = PosetG_new(GraphOf(R, k))
          /\ hist = Built("new", k)
     \/ \E n \in 0..MaxN :
          /\ p \in {PosetM_new_chain(n), PosetG_new_chain(n)}
          /\ hist = Built("new_chain", n)
     \/ \E n \in 0..MaxN :
          /\ p \in {PosetM_new_antichain(n), PosetG_new_antichain(n)}
          /\ hist = Built("new_antichain", n)
     \/ \E n \in 0..MaxN :
          /\ p \in {PosetM_new_corolla(n), PosetG_new_corolla(n)}
          /\ hist = Built("new_corolla", n)
  /\ last = Call(hist.ctor, "-", {})

InPlace(op, q) ==
  /\ p' = q
  /\ out' = NoValue
  /\ last' = Call(op, "p", {})

FindBot ==
  /\ p.rep \in {"M", "G"}
  /\ \/ p.rep = "M" /\ InPlace("find_bot", PosetM_find_bot(p))
     \/ /\ p.rep = "G"
        /\ \E b \in PosetG_find_bot_results(p) :
             InPlace("find_bot", [p EXCEPT !.md.bot = b])
  /\ UNCHANGED hist

FindTop ==
  /\ p.rep \in {"M", "G"}
  /\ InPlace("find_top",
             IF p.rep = "M" THEN PosetM_find_top(p) ELSE PosetG_find_top(p))
  /\ UNCHANGED hist

FindMinimals ==
  /\ p.rep \in {"M", "G"}
  /\ InPlace("find_minimals",
             IF p.rep = "M" THEN PosetM_find_minimals(p)
                            ELSE PosetG_find_minimals(p))
  /\ UNCHANGED hist

FindMaximals ==
  /\ p.rep \in {"M", "G"}
  /\ InPlace("find_maximals",
             IF p.rep = "M" THEN PosetM_find_maximals(p)
                            ELSE PosetG_find_maximals(p))
  /\ UNCHANGED hist

AdjoinBot ==
  /\ p.rep \in {"M", "G"}
  /\ Cardinality(Carrier(p)) < MaxCard
  /\ InPlace("adjoin_bot",
             IF p.rep = "M" THEN PosetM_adjoin_bot(p) ELSE PosetG_adjoin_bot(p))
  /\ hist' = [hist EXCEPT !.adjoins = @ + 1]

AdjoinTop ==
  /\ p.rep \in {"M", "G"}
  /\ Cardinality(Carrier(p)) < MaxCard
  /\ InPlace("adjoin_top",
             IF p.rep = "M" THEN PosetM_adjoin_top(p) ELSE PosetG_adjoin_top(p))
  /\ hist' = [hist EXCEPT !.adjoins = @ + 1]

(* The life of one poset value: queries and extensions in place.           *)
Next ==
  \/ FindBot
  \/ FindTop
  \/ FindMinimals
  \/ FindMaximals
  \/ AdjoinBot
  \/ AdjoinTop

Spec == Init /\ [][Next]_vars

---------------------------------------------------------------------------
(* Calls that return a new value.  The argument is the caller's value p or *)
(* the value the previous call returned; p itself is only borrowed.        *)

Arg(src) == IF src = "p" THEN p ELSE out

(* A returned value is passed on once: f(p) and g(f(p)) are explored.      *)
CanCall(src) ==
  /\ src = "out" => last.src = "p" /\ out # NoValue
  /\ src = "p" => p.rep \in {"M", "G"}

Returns(op, src, sel, v) ==
  /\ out' = v
  /\ last' = Call(op, src, sel)
  /\ UNCHANGED <<p, hist>>

Op ==
  \E src \in {"p", "out"} :
    /\ CanCall(src)
    /\ Arg(src).rep \in {"M", "G"}
    /\ Returns("op", src, {},
               IF Arg(src).rep = "M" THEN PosetM_op(Arg(src))
                                     ELSE PosetG_op(Arg(src)))

Sub ==
  \E s_0 \in SUBSET Elems(p.md.n + 1) :
    /\ CanCall("p")
    /\ Returns("sub", "p", s_0,
               IF p.rep = "M" THEN PosetM_sub(p, s_0) ELSE PosetG_sub(p, s_0))

MatrixToGraph ==
  \E src \in {"p", "out"} :
    /\ CanCall(src)
    /\ Arg(src).rep = "M"
    /\ Returns("matrix_to_graph", src, {}, matrix_to_graph(Arg(src)))

GraphToMatrix ==
  \E src \in {"p", "out"} :
    /\ CanCall(src)
    /\ Arg(src).rep = "G"
    /\ Returns("graph_to_matrix", src, {}, graph_to_matrix(Arg(src)))

GraphToHasse ==
  \E src \in {"p", "out"} :
    /\ CanCall(src)
    /\ Arg(src).rep = "G"
    /\ \E h \in graph_to_hasse_results(Arg(src)) :
         Returns("graph_to_hasse", src, {}, h)

(* leq(x, y) borrows p and returns a bool, or panics.                      *)
LeqCall(x, y) == [op |-> "leq", src |-> "p", sel |-> {}, x |-> x, y |-> y]

LeqResult(q, x, y) ==
  LET r == IF q.rep = "M" THEN PosetM_leq(q, x, y) ELSE PosetG_leq(q, x, y)
  IN  IF r = "panic" THEN Panic ELSE [rep |-> "bool", b |-> r]

LeqOf ==
  \E x, y \in 0..Cardinality(Carrier(p)) :
    /\ p.rep \in {"M", "G"}
    /\ out' = LeqResult(p, x, y)
    /\ last' = LeqCall(x, y)
    /\ UNCHANGED <<p, hist>>

(* Values built and extended in place, then handed to op, sub and the      *)
(* convertors.                                                             *)
NextOps ==
  \/ AdjoinBot
  \/ AdjoinTop
  \/ Op
  \/ Sub
  \/ MatrixToGraph
  \/ GraphToMatrix
  \/ GraphToHasse
  \/ LeqOf

SpecOps == Init /\ [][NextOps]_vars

---------------------------------------------------------------------------
(* Vocabulary of the properties                                            *)

Leq(q, x, y) == IF q.rep = "M" THEN PosetM_leq(q, x, y) ELSE PosetG_leq(q, x, y)

Bool(b) == IF b THEN "true" ELSE "false"

Payload(q) == IF q.rep = "M" THEN q.m ELSE q.g

(* The payload describes exactly the elements 0..k-1.                      *)
Describes(q, k) ==
  /\ Carrier(q) = Elems(k)
  /\ q.rep = "M" => \A i \in DOMAIN q.m : DOMAIN q.m[i] = Elems(k)
  /\ q.rep = "G" => \A i \in DOMAIN q.g : q.g[i] \subseteq Elems(k)

Converse(R) == {<<xy[2], xy[1]>> : xy \in R}

MinimalsOf(R, E) == {i \in E : ~ \E j \in E : j # i /\ <<j, i>> \in R}

MaximalsOf(R, E) == {i \in E : ~ \E j \in E : j # i /\ <<i, j>> \in R}

(* y covers x: x < y and nothing lies strictly between them.               *)
CoversOf(R, E, x) ==
  {y \in E : /\ x # y
             /\ <<x, y>> \in R
             /\ ~ \E t \in E \ {x, y} : <<x, t>> \in R /\ <<t, y>> \in R}

(* The same relation held in the other representation.                     *)
Twin(q) ==
  IF q.rep = "M" THEN PosetG_new(GraphOf(Rel(q), q.md.n))
                 ELSE PosetM_new(MatrixOf(Rel(q), q.md.n))

FromAdjoinableCtor == hist.ctor \in {"new_chain", "new_antichain"}

---------------------------------------------------------------------------
(* C1: adjoin_bot on a PosetM or PosetG built by new_chain / new_antichain *)
(* and any adjoin_* calls, of cardinality n: afterwards md.n = n+1, the    *)
(* payload describes exactly n+1 elements, n <= x for every element x, no  *)
(* old x has x <= n, the old relation is unchanged, md.bot = Some(A(n)).   *)
C1_AdjoinBotLaw ==
  [][ (FromAdjoinableCtor /\ last'.op = "adjoin_bot") =>
        LET n == p.md.n
        IN  /\ p'.md.n = n + 1
            /\ Describes(p', n + 1)
            /\ \A x \in Elems(n + 1) : Leq(p', n, x) = "true"
            /\ \A x \in Elems(n) : Leq(p', x, n) = "false"
            /\ \A x, y \in Elems(n) : Leq(p', x, y) = Leq(p, x, y)
            /\ p'.md.bot = SomeA(n) ]_vars

(* C2: adjoin_top on a poset of cardinality n: afterwards md.n = n+1,      *)
(* x <= n for every element x, n <= x only for x = n, the old relation is  *)
(* unchanged, md.top = Some(A(n)) and md.maximals = Some({n}).             *)
C2_AdjoinTopLaw ==
  [][ (last'.op = "adjoin_top" /\ ValidPoset(p)) =>
        LET n == p.md.n
        IN  /\ p'.md.n = n + 1
            /\ \A x \in Elems(n + 1) : Leq(p', x, n) = "true"
            /\ \A x \in Elems(n) : Leq(p', n, x) = "false"
            /\ \A x, y \in Elems(n) : Leq(p', x, y) = Leq(p, x, y)
            /\ p'.md.top = SomeA(n)
            /\ p'.md.maximals = SomeSet({n}) ]_vars

(* C3: for a valid PosetG p and a selector S within 0..n-1, p.sub(S) has   *)
(* exactly the keys S, y is in the forward set of x iff x <= y in p, and   *)
(* no forward set holds an element outside S.                              *)
C3_SubLaw ==
  (last.op = "sub" /\ p.rep = "G" /\ ValidPoset(p)
     /\ last.sel \subseteq Elems(p.md.n)) =>
    /\ out.rep = "G"
    /\ DOMAIN out.g = last.sel
    /\ \A x, y \in last.sel : y \in out.g[x] <=> <<x, y>> \in RelG(p)
    /\ \A x \in last.sel : out.g[x] \subseteq last.sel

(* C4: for a valid PosetG p, graph_to_hasse(p) gives every element i the   *)
(* covering set { j : i < j and no k with i < k < j }.                     *)
C4_HasseLaw ==
  (last.op = "graph_to_hasse" /\ last.src = "p" /\ ValidPoset(p)) =>
    /\ out.rep = "H"
    /\ DOMAIN out.h = Elems(p.md.n)
    /\ \A i \in Elems(p.md.n) : out.h[i] = CoversOf(RelG(p), Elems(p.md.n), i)

(* C5: on valid posets matrix_to_graph and graph_to_matrix preserve the    *)
(* relation (M[i][j] iff j in g(i)), and each round trip returns the       *)
(* matrix, respectively the graph, and the cardinality it started from.    *)
C5_RoundTrip ==
  [][ /\ (last'.op = "matrix_to_graph" /\ last'.src = "p" /\ ValidPoset(p)) =>
           /\ out'.rep = "G"
           /\ DOMAIN out'.g = Elems(p.md.n)
           /\ \A i, j \in Elems(p.md.n) : p.m[i][j] <=> j \in out'.g[i]
           /\ RelG(out') = RelM(p)
      /\ (last'.op = "graph_to_matrix" /\ last'.src = "p" /\ ValidPoset(p)) =>
           /\ out'.rep = "M"
           /\ DOMAIN out'.m = Elems(p.md.n)
           /\ \A i, j \in Elems(p.md.n) : out'.m[i][j] <=> j \in p.g[i]
           /\ RelM(out') = RelG(p)
      /\ (/\ last.op = "matrix_to_graph" /\ last.src = "p"
          /\ last'.op = "graph_to_matrix" /\ last'.src = "out"
          /\ ValidPoset(p)) =>
           /\ out'.rep = "M"
           /\ out'.m = p.m
           /\ out'.md.n = p.md.n
      /\ (/\ last.op = "graph_to_matrix" /\ last.src = "p"
          /\ last'.op = "matrix_to_graph" /\ last'.src = "out"
          /\ ValidPoset(p)) =>
           /\ out'.rep = "G"
           /\ out'.g = p.g
           /\ out'.md.n = p.md.n ]_vars

C5_Witness ==
  /\ ValidPoset(p) /\ p.md.n >= 3
  /\ last.op = "graph_to_matrix" /\ last.src = "out"
  /\ out.rep = "M" /\ out.m = p.m
  /\ \E i, j \in Elems(p.md.n) : i # j /\ p.m[i][j]

(* C6: for a PosetM or PosetG built by a constructor and any adjoin_*      *)
(* calls, op(p) has the elements of p with x <= y iff y <= x in p, and     *)
(* op(op(p)) has the relation and the cardinality of p.                    *)
C6_OpLaw ==
  [][ /\ (last'.op = "op" /\ last'.src = "p") =>
           /\ out'.rep = p.rep
           /\ Carrier(out') = Carrier(p)
           /\ Rel(out') = Converse(Rel(p))
      /\ (last.op = "op" /\ last.src = "p"
            /\ last'.op = "op" /\ last'.src = "out") =>
           /\ out'.rep = p.rep
           /\ Rel(out') = Rel(p)
           /\ out'.md.n = p.md.n
           /\ Carrier(out') = Carrier(p) ]_vars

IsSome(o) == o # None

Untouched == hist.adjoins = 0

(* C7: for n >= 1, new_chain(n) has cardinality n and no metadata computed,*)
(* leq(i, j) iff i <= j as integers, and the find_* calls record           *)
(* bot = A(0), top = A(n-1), minimals = {0}, maximals = {n-1}.             *)
C7_ChainLaws ==
  (hist.ctor = "new_chain" /\ hist.n >= 1 /\ Untouched) =>
    LET n == hist.n
    IN  /\ p.md.n = n
        /\ Describes(p, n)
        /\ last.op = "new_chain" => p.md = MetaData_new(n)
        /\ \A i, j \in Elems(n) : Leq(p, i, j) = Bool(i <= j)
        /\ IsSome(p.md.bot) => p.md.bot = SomeA(0)
        /\ IsSome(p.md.top) => p.md.top = SomeA(n - 1)
        /\ IsSome(p.md.minimals) => p.md.minimals = SomeSet({0})
        /\ IsSome(p.md.maximals) => p.md.maximals = SomeSet({n - 1})

C7_Witness ==
  /\ hist.ctor = "new_chain" /\ hist.n >= 3 /\ Untouched
  /\ p.md.bot = SomeA(0) /\ p.md.top = SomeA(hist.n - 1)
  /\ p.md.minimals = SomeSet({0}) /\ p.md.maximals = SomeSet({hist.n - 1})

(* C8: new_antichain(n) has leq(i, j) iff i = j; the find_* calls record   *)
(* minimals = maximals = {0..n-1}, and for n > 1 top and bot NotPresent.   *)
C8_AntichainLaws ==
  (hist.ctor = "new_antichain" /\ Untouched) =>
    LET n == hist.n
    IN  /\ p.md.n = n
        /\ \A i, j \in Elems(n) : Leq(p, i, j) = Bool(i = j)
        /\ IsSome(p.md.minimals) => p.md.minimals = SomeSet(Elems(n))
        /\ IsSome(p.md.maximals) => p.md.maximals = SomeSet(Elems(n))
        /\ (n > 1 /\ IsSome(p.md.top)) => p.md.top = SomeNotPresent
        /\ (n > 1 /\ IsSome(p.md.bot)) => p.md.bot = SomeNotPresent

C8_Witness ==
  /\ hist.ctor = "new_antichain" /\ hist.n >= 3 /\ Untouched
  /\ p.md.top = SomeNotPresent /\ p.md.bot = SomeNotPresent
  /\ p.md.minimals = SomeSet(Elems(hist.n))
  /\ p.md.maximals = SomeSet(Elems(hist.n))

(* What C9 says of new_corolla(n) apart from the size of the maximal set.  *)
CorollaBasics ==
  LET n == hist.n
  IN  /\ p.md.n = n + 1
      /\ p.md.bot = SomeA(n)
      /\ IsSome(p.md.minimals) /\ Cardinality(p.md.minimals.s) = 1
      /\ (n >= 2 /\ IsSome(p.md.top)) => p.md.top = SomeNotPresent

(* C9 as stated: for every n, new_corolla(n) has cardinality n+1, a known  *)
(* bottom, one minimal element, after find_maximals a maximal set of size  *)
(* exactly n, and top NotPresent when there are several leaves.            *)
C9_CorollaLawsAsStated ==
  (hist.ctor = "new_corolla" /\ Untouched) =>
    /\ CorollaBasics
    /\ IsSome(p.md.maximals) => Cardinality(p.md.maximals.s) = hist.n

(* C9 amended: the maximal set has size n for n >= 1; new_corolla(0) is    *)
(* the one-element poset, whose root is its only maximal element.          *)
C9_CorollaLaws ==
  (hist.ctor = "new_corolla" /\ Untouched) =>
    /\ CorollaBasics
    /\ IsSome(p.md.maximals) =>
         Cardinality(p.md.maximals.s) = IF hist.n >= 1 THEN hist.n ELSE 1

C9_Witness ==
  /\ hist.ctor = "new_corolla" /\ hist.n >= 3 /\ Untouched
  /\ p.md.top = SomeNotPresent
  /\ p.md.maximals = SomeSet(Elems(hist.n))
  /\ p.md.minimals = SomeSet({hist.n})

(* C10: on a valid poset find_minimals records { i : no j # i has j <= i } *)
(* and find_maximals { i : no j # i has i <= j }, the other representation *)
(* of the same relation records the same sets, the set is non-empty when   *)
(* n >= 1, and neither call changes the payload or md.n.                   *)
C10_ExtremalLaws ==
  [][ /\ (last'.op = "find_minimals" /\ ValidPoset(p)) =>
           LET n == p.md.n
               t == Twin(p)
               twin == IF t.rep = "M" THEN PosetM_find_minimals(t)
                                      ELSE PosetG_find_minimals(t)
           IN  /\ p'.md.minimals = SomeSet(MinimalsOf(Rel(p), Elems(n)))
               /\ p'.md.minimals = twin.md.minimals
               /\ n >= 1 => p'.md.minimals.s # {}
               /\ Payload(p') = Payload(p)
               /\ p'.md.n = n
      /\ (last'.op = "find_maximals" /\ ValidPoset(p)) =>
           LET n == p.md.n
               t == Twin(p)
               twin == IF t.rep = "M" THEN PosetM_find_maximals(t)
                                      ELSE PosetG_find_maximals(t)
           IN  /\ p'.md.maximals = SomeSet(MaximalsOf(Rel(p), Elems(n)))
               /\ p'.md.maximals = twin.md.maximals
               /\ n >= 1 => p'.md.maximals.s # {}
               /\ Payload(p') = Payload(p)
               /\ p'.md.n = n ]_vars

C10_Witness ==
  /\ ValidPoset(p) /\ p.md.n >= 3
  /\ hist.ctor = "new"
  /\ last.op = "find_maximals"
  /\ IsSome(p.md.minimals) /\ IsSome(p.md.maximals)
  /\ Cardinality(p.md.maximals.s) = 2
  /\ Cardinality(p.md.minimals.s) = 1

(* The maximal set find_maximals computes for q, and the top it implies.   *)
ComputedMaximals(q) ==
  IF q.rep = "M" THEN PosetM_find_maximals(q).md.maximals.s
                 ELSE PosetG_find_maximals(q).md.maximals.s

TopOfMaximals(S) ==
  IF Cardinality(S) = 1 THEN SomeA(CHOOSE t \in S : TRUE) ELSE SomeNotPresent

(* C11: on a valid poset find_top records Some(A(t)) exactly when the set  *)
(* find_maximals computes is {t} and Some(NotPresent) otherwise; find_bot  *)
(* records Some(A(b)) exactly when b <= x for all x and Some(NotPresent)   *)
(* otherwise; the other representation of the same relation records the   *)
(* same top and the same bottom.                                           *)
C11_TopBotLaws ==
  [][ /\ (last'.op = "find_top" /\ ValidPoset(p)) =>
           LET t == Twin(p)
               twin == IF t.rep = "M" THEN PosetM_find_top(t)
                                      ELSE PosetG_find_top(t)
           IN  /\ p'.md.top = TopOfMaximals(ComputedMaximals(p))
               /\ p'.md.top = twin.md.top
      /\ (last'.op = "find_bot" /\ ValidPoset(p)) =>
           LET n == p.md.n
               bots == {b \in Elems(n) :
                          \A x \in Elems(n) : Leq(p, b, x) = "true"}
               t == Twin(p)
               twin == IF t.rep = "M" THEN {PosetM_find_bot(t).md.bot}
                                      ELSE PosetG_find_bot_results(t)
           IN  /\ \A b \in Elems(n) : p'.md.bot = SomeA(b) <=> b \in bots
               /\ p'.md.bot = SomeNotPresent <=> bots = {}
               /\ twin = {p'.md.bot} ]_vars

C11_Witness ==
  /\ ValidPoset(p) /\ p.md.n >= 3
  /\ hist.ctor = "new"
  /\ last.op = "find_top"
  /\ p.md.top = SomeNotPresent
  /\ p.md.bot = SomeA(0)
  /\ Cardinality(ComputedMaximals(p)) = 2

(* C12: leq(x, y) on a poset of cardinality n never returns a bool when    *)
(* x >= n or y >= n, the caller gets an error instead; with x, y < n it    *)
(* returns true iff x <= y in the represented relation.                    *)
C12_LeqLaw ==
  (last.op = "leq" /\ ValidPoset(p)) =>
    LET n == p.md.n
    IN  /\ (last.x >= n \/ last.y >= n) => out = Panic
        /\ (last.x < n /\ last.y < n) =>
             out = [rep |-> "bool", b |-> Bool(<<last.x, last.y>> \in Rel(p))]

(* C13: for a PosetG built by new_chain(n) or new_antichain(n), n >= 0,    *)
(* after any interleaving of find_* and adjoin_* calls md.n is the number  *)
(* of keys of the graph and every metadata field that is Some(..) is the   *)
(* value the corresponding find_* computes on the current relation.        *)
C13_CacheFresh ==
  (p.rep = "G" /\ FromAdjoinableCtor) =>
    /\ p.md.n = Cardinality(DOMAIN p.g)
    /\ IsSome(p.md.bot) => p.md.bot \in PosetG_find_bot_results(p)
    /\ IsSome(p.md.top) => p.md.top = PosetG_find_top(p).md.top
    /\ IsSome(p.md.minimals) =>
         p.md.minimals = PosetG_find_minimals(p).md.minimals
    /\ IsSome(p.md.maximals) =>
         p.md.maximals = PosetG_find_maximals(p).md.maximals

====
